---- MODULE Spec2Model ----
(***************************************************************************)
(* USB camera hardware test suite, camera_test_suite/main.py.               *)
(*                                                                         *)
(* The model has three layers:                                             *)
(*   - the capture device behind cv2.VideoCapture (property store, frame   *)
(*     source), as the environment the probes drive;                       *)
(*   - the ten probes, as operators computed the way the code              *)
(*     computes them, returning the result and the device they leave;      *)
(*   - the tester: the Tk thread's handlers, run_tests, stop_tests,        *)
(*     clear_results, connect/disconnect, update_results_display and the   *)
(*     manual controls, and the worker threads running                     *)
(*     _run_test_sequence.                                                 *)
(*                                                                         *)
(* Property values are integers in hundredths: 0.25 is 25, 640 is 64000,   *)
(* so the code's float tolerances become integer comparisons.  Times are   *)
(* in milliseconds.                                                        *)
(***************************************************************************)
EXTENDS Integers, Sequences, FiniteSets, TLC

\* ------------------------------------------------------------------ bounds
MaxRuns == 2        \* worker threads run_tests may start in one behaviour
MaxSelected == 2    \* probes ticked for one run
MaxManual == 1      \* manual-control calls of the Tk thread in one behaviour
MaxIndex == 1       \* the scan tries the indices 0..MaxIndex, of the fifteen of the code
MaxInstalls == 2    \* installation threads start_installation may start in one behaviour

\* --------------------------------------------------------------- arithmetic
\* hundredths: the unit every property value is kept in
Scale == 10 * 10

C(x) == x * Scale

Abs(x) == IF x < 0 THEN -x ELSE x

Max(a, b) == IF a > b THEN a ELSE b

Min(a, b) == IF a < b THEN a ELSE b

Clamp(lo, hi, x) == Max(lo, Min(hi, x))

\* int(float): truncation toward zero of a value in hundredths
IntOf(v) == IF v >= 0 THEN v \div Scale ELSE -((-v) \div Scale)

RECURSIVE SeqMin(_)
SeqMin(s) == IF Len(s) = 1 THEN s[1] ELSE Min(s[1], SeqMin(Tail(s)))

RECURSIVE SeqMax(_)
SeqMax(s) == IF Len(s) = 1 THEN s[1] ELSE Max(s[1], SeqMax(Tail(s)))

\* ------------------------------------------------------------------ device
Keys == {"width", "height", "fps", "exposure", "auto_exposure", "brightness",
         "gain", "focus", "autofocus", "auto_wb", "wb_temperature"}

\* The physical effect of a property write on the mean of the frames the
\* sensor then delivers (a device whose writes reach the sensor).
LightOf(v) == Clamp(0, 255, 128 + IntOf(v))

\* camera.set(key, v): the readback changes only on a device that echoes the
\* key, the frames only on one whose sensor follows it.  nset counts the set
\* calls the port has received since the caller last looked.  A read that
\* delivers a frame takes readMs, one that fails failMs; burst is the number
\* of reads in a row that deliver before the source runs dry, stall the number
\* of failing reads a reading loop meets before the first frame.  battery is
\* whether psutil.sensors_battery() of the host answers with a battery.
\* frame, sharp, contrast and noise are the statistics of the frames the
\* sensor delivers, row their pixels where those are given.
DevSet(d, k, v) ==
    [d EXCEPT !.vals[k] = IF k \in d.echo THEN v ELSE @,
              !.frame = IF k \in d.light THEN LightOf(v) ELSE @,
              !.nset = @ + 1]

\* camera.get(key)
DevGet(d, k) == d.vals[k]

\* np.mean(frame) if ret else 0
FrameMean(d) == IF d.frames THEN d.frame ELSE 0

\* burst of a source that never runs dry: more reads than any window holds
Steady == 10 * 10 * 10

\* A module that honours every write, read back exactly.
HonourDevice ==
    [echo |-> Keys, light |-> {}, frames |-> TRUE, frame |-> 120, nset |-> 0,
     readMs |-> 100, failMs |-> 1, burst |-> Steady, battery |-> FALSE,
     row |-> <<>>, stall |-> 0,
     sharp |-> 80, contrast |-> 40, noise |-> 4,
     vals |-> [k \in Keys |->
        CASE k = "width" -> C(1280) [] k = "height" -> C(720)
          [] k = "fps" -> C(8) [] k = "exposure" -> C(-6)
          [] k = "auto_exposure" -> 75 [] k = "brightness" -> C(128)
          [] k = "gain" -> C(10) [] k = "focus" -> C(30)
          [] k = "autofocus" -> C(1) [] k = "auto_wb" -> C(1)
          [] OTHER -> C(4600)]]

\* A module whose writes do nothing at all: every readback is the constant 0
\* and the frames never change.
InertDevice ==
    [echo |-> {}, light |-> {}, frames |-> TRUE, frame |-> 120, nset |-> 0,
     readMs |-> 100, failMs |-> 1, burst |-> Steady, battery |-> FALSE,
     row |-> <<>>, stall |-> 0,
     sharp |-> 80, contrast |-> 40, noise |-> 4,
     vals |-> [k \in Keys |-> 0]]

\* A module that never echoes a write but whose sensor follows exposure.
LightDevice ==
    [echo |-> {}, light |-> {"exposure"}, frames |-> TRUE, frame |-> 120, nset |-> 0,
     readMs |-> 250, failMs |-> 1, burst |-> Steady, battery |-> FALSE,
     row |-> <<>>, stall |-> 0,
     sharp |-> 30, contrast |-> 40, noise |-> 4,
     vals |-> [k \in Keys |-> IF k = "autofocus" THEN C(1) ELSE 0]]

\* A module that enumerates but delivers no frame.
BlindDevice ==
    [echo |-> {"auto_exposure"}, light |-> {}, frames |-> FALSE, frame |-> 0, nset |-> 0,
     readMs |-> 100, failMs |-> 1, burst |-> Steady, battery |-> FALSE,
     row |-> <<>>, stall |-> 0,
     sharp |-> 0, contrast |-> 0, noise |-> 0,
     vals |-> [k \in Keys |-> 0]]

Devices == {HonourDevice, InertDevice, LightDevice, BlindDevice}

\* ------------------------------------------------------- frame statistics
\* A frame is modelled by one row of grey levels 0..255, every row of the
\* frame being that row, so that the vertical differences vanish.
\* pixel i of a row, the border reflected as OpenCV's default border does
Px(row, i) ==
    IF i < 1 THEN row[2 - i] ELSE IF i > Len(row) THEN row[2 * Len(row) - i] ELSE row[i]

RECURSIVE SeqSum(_)
SeqSum(s) == IF s = <<>> THEN 0 ELSE s[1] + SeqSum(Tail(s))

\* a spread measured from zero, not from the mean
VarUncentred(s) ==
    <<Len(s) * SeqSum([i \in 1..Len(s) |-> s[i] * s[i]]), Len(s) * Len(s)>>

\* numpy's var(): the mean of the squares less the square of the mean, as the
\* pair <<numerator, denominator>>
Var(s) ==
    <<Len(s) * SeqSum([i \in 1..Len(s) |-> s[i] * s[i]]) - SeqSum(s) * SeqSum(s),
      Len(s) * Len(s)>>

\* the whole part of a square root
Sqrt(x) == CHOOSE r \in 0..(4 * 255) : r * r <= x /\ x < (r + 1) * (r + 1)

\* cv2.Laplacian(gray, cv2.CV_64F)
Laplacian(row) == [i \in 1..Len(row) |-> Px(row, i - 1) + Px(row, i + 1) - 2 * row[i]]

\* cv2.GaussianBlur(gray, (5, 5), 0): the weights 1 4 6 4 1 over 16, rounded
\* to a grey level
GaussianBlur(row) ==
    [i \in 1..Len(row) |->
        (Px(row, i - 2) + 4 * Px(row, i - 1) + 6 * row[i] + 4 * Px(row, i + 1)
            + Px(row, i + 2) + 8) \div 16]

\* The four metrics of _test_image_quality on a frame of mean brightness a
\* whole number.  Each is kept as the whole number on which its threshold
\* test answers as on the value itself: sharpness and contrast (tested with
\* <) rounded down, the noise level (tested with >) rounded up.  The
\* difference of the two uint8 arrays wraps around at 256.
FrameStats(row) ==
    LET sharp == Var(Laplacian(row))
        contrast == Var(row)
        blurred == GaussianBlur(row)
        noise == Var([i \in 1..Len(row) |-> (blurred[i] - row[i]) % 256])
        root == Sqrt(noise[1] \div noise[2])
    IN [frame |-> SeqSum(row) \div Len(row),
        sharp |-> sharp[1] \div sharp[2],
        contrast |-> Sqrt(contrast[1] \div contrast[2]),
        noise |-> IF root * root * noise[2] = noise[1] THEN root ELSE root + 1]

\* The handle self.camera: None, an opened VideoCapture, or a VideoCapture
\* that failed to open (its set is refused, its get is 0, its read fails).
CamSet(cam, d, k, v) ==
    IF cam = "open" THEN DevSet(d, k, v) ELSE [d EXCEPT !.nset = @ + 1]

CamGet(cam, d, k) == IF cam = "open" THEN DevGet(d, k) ELSE 0

CamReads(cam, d) == cam = "open" /\ d.frames /\ d.stall = 0

CamFrameMean(cam, d) == IF CamReads(cam, d) THEN d.frame ELSE 0

\* ------------------------------------------------------------------ results
TestNames == <<"Camera Detection", "Resolution Test", "Frame Rate Test",
               "Exposure Control", "Focus Test", "White Balance",
               "Image Quality", "USB Interface", "Power Consumption",
               "Capture Test Image">>

\* TestResult(test_name, status, message, timestamp, details)
TestResult(name, status, message, details) ==
    [test_name |-> name, status |-> status, message |-> message,
     details |-> details]

\* What a probe hands back: its TestResult, the device as it leaves it, and
\* the number of set calls it issued.
Outcome(name, status, message, details, d) ==
    [result |-> TestResult(name, status, message, details),
     dev |-> [d EXCEPT !.nset = 0], nset |-> d.nset]

\* a probe that reports the missing handle as a capability not present
NotConnectedSkipped(name, d) == Outcome(name, "SKIP", "Camera not connected", <<>>, d)

NotConnected(name, d) == Outcome(name, "FAIL", "Camera not connected", <<>>, d)

\* _run_single_test's except clause: an error that leaves the probe
TestError(name, d) == Outcome(name, "FAIL", "Test error", <<>>, d)

\* ---------------------------------------------------------------- the probes
\* Every probe takes the handle state cam, the device d and fault: TRUE when
\* the calls on self.camera raise inside the probe's body, which is when
\* disconnect_camera has set the handle to None under it (the calls of
\* cv2.VideoCapture themselves report failure by their return value).

\* _test_camera_detection; saw is the handle as the guard at its top saw it.
CameraDetection(saw, cam, d, fault) ==
    LET n == "Camera Detection" IN
    IF saw # "open" THEN NotConnected(n, d)
    ELSE IF fault THEN TestError(n, d)
    ELSE IF ~CamReads(cam, d)
         THEN Outcome(n, "FAIL", "Cannot read frames from camera", <<>>, d)
    ELSE IF IntOf(CamGet(cam, d, "width")) = 0 \/ IntOf(CamGet(cam, d, "height")) = 0
         THEN Outcome(n, "FAIL", "Invalid frame dimensions", <<>>, d)
    ELSE Outcome(n, "PASS", "Camera detected and responding", <<>>, d)

TestResolutions == <<<<640, 480>>, <<1280, 720>>, <<1920, 1080>>>>

ResolutionLabel(wh) ==
    CASE wh = <<640, 480>> -> "640x480"
      [] wh = <<1280, 720>> -> "1280x720"
      [] OTHER -> "1920x1080"

\* the ladder loop of _test_resolution from rung i on
RECURSIVE ResolutionSweep(_, _, _, _)
ResolutionSweep(cam, d, i, supported) ==
    IF i > Len(TestResolutions) THEN [dev |-> d, supported |-> supported]
    ELSE LET wh == TestResolutions[i]
             d1 == CamSet(cam, CamSet(cam, d, "width", C(wh[1])), "height", C(wh[2]))
             ok == /\ IntOf(CamGet(cam, d1, "width")) = wh[1]
                   /\ IntOf(CamGet(cam, d1, "height")) = wh[2]
         IN ResolutionSweep(cam, d1, i + 1,
                IF ok THEN Append(supported, ResolutionLabel(wh)) ELSE supported)

\* a resolution probe that wants every rung of the ladder supported
ResolutionTestEveryRung(saw, cam, d, fault) ==
    LET n == "Resolution Test" IN
    IF saw = "none" THEN NotConnected(n, d)
    ELSE IF fault THEN TestError(n, d)
    ELSE LET r == ResolutionSweep(cam, d, 1, <<>>) IN
         IF Len(r.supported) < Len(TestResolutions)
         THEN Outcome(n, "FAIL", "No standard resolutions supported", <<>>, r.dev)
         ELSE Outcome(n, "PASS", "Supported resolutions", r.supported, r.dev)

\* _test_resolution
ResolutionTest(saw, cam, d, fault) ==
    LET n == "Resolution Test" IN
    IF saw = "none" THEN NotConnected(n, d)
    ELSE IF fault THEN TestError(n, d)
    ELSE LET r == ResolutionSweep(cam, d, 1, <<>>) IN
         IF r.supported = <<>>
         THEN Outcome(n, "FAIL", "No standard resolutions supported", <<>>, r.dev)
         ELSE Outcome(n, "PASS", "Supported resolutions", r.supported, r.dev)

AutoExpMethods == <<25, 0, 100, 300>>

TestExposures == <<-10, -7, -4, -1, 1, 10, 50, 100, 200, 500, 1000>>

BrightnessValues == <<0, 32, 64, 128, 192, 255>>

GainValues == <<0, 25, 50, 100, 200>>

AutoModes == <<25, 75, 0, 100, 300>>

\* the loop over auto_exp_methods: stops at the first method read back
RECURSIVE ManualModeSweep(_, _, _)
ManualModeSweep(cam, d, i) ==
    IF i > Len(AutoExpMethods) THEN d
    ELSE LET d1 == CamSet(cam, d, "auto_exposure", AutoExpMethods[i]) IN
         IF Abs(CamGet(cam, d1, "auto_exposure") - AutoExpMethods[i]) < 10
         THEN d1 ELSE ManualModeSweep(cam, d1, i + 1)

\* abs(actual_exp - exp_val) < max(1, abs(exp_val) * 0.15)
ExposureEchoed(actual, e) == Abs(actual - C(e)) < Max(Scale, 15 * Abs(e))

\* abs(actual_bright - bright_val) < 5
BrightnessEchoed(actual, b) == Abs(actual - C(b)) < C(5)

\* abs(actual_gain - gain_val) < max(5, gain_val * 0.1)
GainEchoed(actual, g) == Abs(actual - C(g)) < Max(C(5), 10 * g)

\* One ladder of method 1 or 2 from rung i on: baseline frame, set, readback,
\* test frame; a rung works when the readback echoes it or the frame mean
\* moved by more than delta.
RECURSIVE LadderSweep(_, _, _, _, _, _, _)
LadderSweep(cam, d, key, ladder, delta, i, working) ==
    IF i > Len(ladder) THEN [dev |-> d, working |-> working]
    ELSE LET v == ladder[i]
             baseline == CamFrameMean(cam, d)
             d1 == CamSet(cam, d, key, C(v))
             actual == CamGet(cam, d1, key)
             change == Abs(CamFrameMean(cam, d1) - baseline)
             echoed == CASE key = "exposure" -> ExposureEchoed(actual, v)
                         [] key = "brightness" -> BrightnessEchoed(actual, v)
                         [] OTHER -> GainEchoed(actual, v)
         IN LadderSweep(cam, d1, key, ladder, delta, i + 1,
                IF echoed \/ change > delta THEN Append(working, v) ELSE working)

\* method 3: the readbacks after setting each auto-exposure mode
RECURSIVE AutoModeSweep(_, _, _, _)
AutoModeSweep(cam, d, i, responses) ==
    IF i > Len(AutoModes) THEN [dev |-> d, responses |-> responses]
    ELSE LET d1 == CamSet(cam, d, "auto_exposure", AutoModes[i]) IN
         AutoModeSweep(cam, d1, i + 1,
                       responses \cup {CamGet(cam, d1, "auto_exposure")})

\* a probe that leaves the device as its last tier left it
RestoreExposureSkipped(cam, d, orig) == d

\* "Restore original settings" of _test_exposure_control
RestoreExposure(cam, d, orig) ==
    CamSet(cam, CamSet(cam, CamSet(cam, CamSet(cam, d,
        "exposure", orig["exposure"]), "auto_exposure", orig["auto_exposure"]),
        "brightness", orig["brightness"]), "gain", orig["gain"])

ExposureDetails(m1, m2, m3) ==
    [method1_direct_exposure |-> m1, method2_alternatives |-> m2,
     method3_auto_exposure |-> m3]

\* the verdict of _test_exposure_control
ExposureVerdict(m1, m2, m3, d) ==
    LET n == "Exposure Control"
        det == ExposureDetails(m1, m2, m3)
    IN IF m1 THEN Outcome(n, "PASS", "Direct exposure control working", det, d)
       ELSE IF m2 THEN Outcome(n, "PASS", "Alternative controls working", det, d)
       ELSE IF m3 THEN Outcome(n, "PASS", "Auto-exposure modes functional", det, d)
       ELSE Outcome(n, "FAIL", "No exposure control methods responsive", det, d)

\* _test_exposure_control; orig holds the four values read at its start.  With
\* fault every rung and the restore raise into their own handlers, so no
\* method works and the device is left as it was found.
ExposureControl(saw, cam, d, orig, fault) ==
    IF saw = "none" THEN NotConnected("Exposure Control", d)
    ELSE IF fault THEN ExposureVerdict(FALSE, FALSE, FALSE, d)
    ELSE LET d0 == ManualModeSweep(cam, d, 1)
             r1 == LadderSweep(cam, d0, "exposure", TestExposures, 5, 1, <<>>)
             r2 == LadderSweep(cam, r1.dev, "brightness", BrightnessValues, 3, 1, <<>>)
             r3 == LadderSweep(cam, r2.dev, "gain", GainValues, 3, 1, <<>>)
             r4 == AutoModeSweep(cam, r3.dev, 1, {})
         IN ExposureVerdict(r1.working # <<>>,
                            r2.working # <<>> \/ r3.working # <<>>,
                            Cardinality(r4.responses) > 1,
                            RestoreExposure(cam, r4.dev, orig))

TestFocusValues == <<0, 10, 25, 50, 75, 100, 150, 200, 255>>

\* abs(actual_focus - focus_val) < max(5, focus_val * 0.1)
FocusEchoed(actual, f) == Abs(actual - C(f)) < Max(C(5), 10 * f)

\* the manual focus ladder of _test_focus from rung i on
RECURSIVE FocusSweep(_, _, _, _)
FocusSweep(cam, d, i, working) ==
    IF i > Len(TestFocusValues) THEN [dev |-> d, working |-> working]
    ELSE LET f == TestFocusValues[i]
             d1 == CamSet(cam, d, "focus", C(f))
         IN FocusSweep(cam, d1, i + 1,
                IF FocusEchoed(CamGet(cam, d1, "focus"), f)
                THEN Append(working, f) ELSE working)

\* the autofocus toggle: on, readback, off, readback
AutofocusToggle(cam, d) ==
    LET d1 == CamSet(cam, d, "autofocus", C(1))
        d2 == CamSet(cam, d1, "autofocus", 0)
    IN [dev |-> d2,
        working |-> Abs(CamGet(cam, d1, "autofocus") - CamGet(cam, d2, "autofocus")) > 10]

\* the focus sweep between the lowest and highest working rung
FocusTransition(cam, d, working) ==
    IF Len(working) < 2 THEN [dev |-> d, working |-> FALSE]
    ELSE LET d1 == CamSet(cam, d, "focus", C(SeqMin(working)))
             d2 == CamSet(cam, d1, "focus", C(SeqMax(working)))
         IN [dev |-> d2,
             working |-> Abs(CamGet(cam, d2, "focus") - CamGet(cam, d1, "focus")) > C(10)]

\* "Restore original settings" of _test_focus
RestoreFocus(cam, d, orig) ==
    CamSet(cam, CamSet(cam, d, "focus", orig["focus"]), "autofocus", orig["autofocus"])

\* a focus verdict that never skips: no working control is a failure
FocusVerdictNoSkip(af, working, orig, d) ==
    LET n == "Focus Test"
        det == [autofocus_working |-> af, working_focus_values |-> working]
    IN IF af \/ working # <<>>
       THEN Outcome(n, "PASS", "Focus control functional", det, d)
       ELSE Outcome(n, "FAIL", "Focus hardware detected but controls not responding", det, d)

\* the verdict of _test_focus
FocusVerdict(af, working, orig, d) ==
    LET n == "Focus Test"
        det == [autofocus_working |-> af, working_focus_values |-> working]
    IN IF af \/ working # <<>>
       THEN Outcome(n, "PASS", "Focus control functional", det, d)
       ELSE IF orig["focus"] > 0 \/ orig["autofocus"] > 0
       THEN Outcome(n, "FAIL", "Focus hardware detected but controls not responding", det, d)
       ELSE Outcome(n, "SKIP", "No focus control capability detected", det, d)

\* _test_focus; orig holds the two values read at its start.  With fault the
\* manual ladder never assigns test_focus_values, so building the details
\* raises and the outer handler answers.
FocusTest(saw, cam, d, orig, fault) ==
    IF saw = "none" THEN NotConnected("Focus Test", d)
    ELSE IF fault THEN Outcome("Focus Test", "FAIL", "Focus test error", <<>>, d)
    ELSE LET a == AutofocusToggle(cam, d)
             m == FocusSweep(cam, CamSet(cam, a.dev, "autofocus", 0), 1, <<>>)
             t == FocusTransition(cam, m.dev, m.working)
         IN FocusVerdict(a.working, m.working, orig, RestoreFocus(cam, t.dev, orig))

\* a white-balance probe that fails a device without the controls
WhiteBalanceStrict(saw, cam, d, fault) ==
    LET n == "White Balance" IN
    IF saw = "none" THEN NotConnected(n, d)
    ELSE IF fault THEN Outcome(n, "FAIL", "White balance test error", <<>>, d)
    ELSE LET wb_temp == CamGet(cam, d, "wb_temperature")
             d1 == CamSet(cam, d, "auto_wb", C(1))
             d2 == CamSet(cam, d1, "auto_wb", 0)
             ctl == CamGet(cam, d1, "auto_wb") # CamGet(cam, d2, "auto_wb")
         IN IF ctl \/ wb_temp > 0
            THEN Outcome(n, "PASS", "White balance controls available", ctl, d2)
            ELSE Outcome(n, "FAIL", "White balance controls not available", ctl, d2)

\* _test_white_balance
WhiteBalance(saw, cam, d, fault) ==
    LET n == "White Balance" IN
    IF saw = "none" THEN NotConnected(n, d)
    ELSE IF fault THEN Outcome(n, "FAIL", "White balance test error", <<>>, d)
    ELSE LET wb_temp == CamGet(cam, d, "wb_temperature")
             d1 == CamSet(cam, d, "auto_wb", C(1))
             d2 == CamSet(cam, d1, "auto_wb", 0)
             ctl == CamGet(cam, d1, "auto_wb") # CamGet(cam, d2, "auto_wb")
         IN IF ctl \/ wb_temp > 0
            THEN Outcome(n, "PASS", "White balance controls available", ctl, d2)
            ELSE Outcome(n, "SKIP", "White balance controls not available", ctl, d2)

\* the frame-reading window of _test_frame_rate and _test_power_consumption:
\* reads until windowMs have gone by; the frame-rate loop leaves at the first
\* failed read.
Ceil(a, b) == (a + b - 1) \div b

\* the reads of a loop of that many reads that deliver a frame
Burst(cam, d, reads) == IF CamReads(cam, d) THEN Min(d.burst, reads) ELSE 0

FrameRateWindowMs == 3000

PowerWindowMs == 5000

\* _test_frame_rate
FrameRateTest(saw, cam, d, fault) ==
    LET n == "Frame Rate Test" IN
    IF saw = "none" THEN NotConnected(n, d)
    ELSE IF fault THEN TestError(n, d)
    ELSE LET reads == Ceil(FrameRateWindowMs, d.readMs)
             frame_count == Burst(cam, d, reads)
             \* the loop leaves at the first failed read
             elapsed == IF frame_count = reads THEN reads * d.readMs
                        ELSE frame_count * d.readMs + d.failMs
             \* actual_fps < 1, with actual_fps = 0 when no time went by
             low == elapsed = 0 \/ frame_count * 1000 < elapsed
         IN IF low THEN Outcome(n, "FAIL", "Very low frame rate", frame_count, d)
            ELSE Outcome(n, "PASS", "Frame rate", frame_count, d)

\* an image-quality probe whose thresholds flag the boundary values too
ImageQualityInclusive(saw, cam, d, fault) ==
    LET n == "Image Quality" IN
    IF saw = "none" THEN NotConnected(n, d)
    ELSE IF fault THEN Outcome(n, "FAIL", "Image quality test error", <<>>, d)
    ELSE IF ~CamReads(cam, d) THEN Outcome(n, "FAIL", "Cannot capture frame", <<>>, d)
    ELSE LET issues ==
                (IF d.sharp <= 50 THEN {"Low sharpness"} ELSE {})
                \cup (IF d.frame <= 50 \/ d.frame >= 200 THEN {"Poor brightness"} ELSE {})
                \cup (IF d.contrast <= 20 THEN {"Low contrast"} ELSE {})
                \cup (IF d.noise >= 10 THEN {"High noise"} ELSE {})
             details == [sharpness |-> d.sharp, brightness |-> d.frame,
                         contrast |-> d.contrast, noise_level |-> d.noise,
                         quality_issues |-> issues]
         IN IF issues # {} THEN Outcome(n, "FAIL", "Quality issues", details, d)
            ELSE Outcome(n, "PASS", "Image quality metrics within acceptable range", details, d)

\* _test_image_quality
ImageQuality(saw, cam, d, fault) ==
    LET n == "Image Quality" IN
    IF saw = "none" THEN NotConnected(n, d)
    ELSE IF fault THEN Outcome(n, "FAIL", "Image quality test error", <<>>, d)
    ELSE IF ~CamReads(cam, d) THEN Outcome(n, "FAIL", "Cannot capture frame", <<>>, d)
    ELSE LET issues ==
                (IF d.sharp < 50 THEN {"Low sharpness"} ELSE {})
                \cup (IF d.frame < 50 \/ d.frame > 200 THEN {"Poor brightness"} ELSE {})
                \cup (IF d.contrast < 20 THEN {"Low contrast"} ELSE {})
                \cup (IF d.noise > 10 THEN {"High noise"} ELSE {})
             \* the metrics, and the issues the message names
             details == [sharpness |-> d.sharp, brightness |-> d.frame,
                         contrast |-> d.contrast, noise_level |-> d.noise,
                         quality_issues |-> issues]
         IN IF issues # {} THEN Outcome(n, "FAIL", "Quality issues", details, d)
            ELSE Outcome(n, "PASS", "Image quality metrics within acceptable range", details, d)

UsbFrameCount == 10

\* _test_usb_interface: the handle is tested after the system_profiler call,
\* so it is the handle as it is when the frames are read.
UsbInterface(cam, d, fault) ==
    LET n == "USB Interface" IN
    IF cam = "none" THEN NotConnected(n, d)
    ELSE IF fault THEN Outcome(n, "FAIL", "USB interface test error", <<>>, d)
    ELSE LET got == Burst(cam, d, UsbFrameCount)
             \* the loop leaves at the first failed read, frame_count stays 10
             elapsed == IF got = UsbFrameCount THEN UsbFrameCount * d.readMs
                        ELSE got * d.readMs + d.failMs
             \* transfer_rate = frame_count / elapsed_time > 5, 0 when no time went by
             fast == elapsed > 0 /\ UsbFrameCount * 1000 > 5 * elapsed
         IN IF fast THEN Outcome(n, "PASS", "USB interface working", <<>>, d)
            ELSE Outcome(n, "FAIL", "Poor USB transfer rate", <<>>, d)

\* a power probe whose loop leaves at the first failed read
PowerConsumptionLeavesEarly(saw, cam, d, fault) ==
    LET n == "Power Consumption" IN
    IF saw = "none" THEN NotConnected(n, d)
    ELSE IF fault THEN Outcome(n, "FAIL", "Power consumption test error", <<>>, d)
    ELSE LET frame_count == Burst(cam, d, Ceil(PowerWindowMs, d.readMs))
             details == [frames_captured |-> frame_count, battery_available |-> d.battery]
         IN IF frame_count > 0 THEN Outcome(n, "PASS", "Camera operational", details, d)
            ELSE Outcome(n, "FAIL", "Camera not responding during power test", details, d)

\* _test_power_consumption
PowerConsumption(saw, cam, d, fault) ==
    LET n == "Power Consumption" IN
    IF saw = "none" THEN NotConnected(n, d)
    ELSE IF fault THEN Outcome(n, "FAIL", "Power consumption test error", <<>>, d)
    ELSE LET \* failed reads are counted out, the loop goes on to the end of the window
             stalled == d.stall * d.failMs
             frame_count ==
                IF cam = "open" /\ d.frames /\ stalled < PowerWindowMs
                THEN Min(d.burst, Ceil(PowerWindowMs - stalled, d.readMs)) ELSE 0
             details == [frames_captured |-> frame_count, battery_available |-> d.battery]
         IN IF frame_count > 0 THEN Outcome(n, "PASS", "Camera operational", details, d)
            ELSE Outcome(n, "FAIL", "Camera not responding during power test", details, d)

\* _test_capture_image; sink is whether cv2.imwrite stored the frame
CaptureTestImage(saw, cam, d, fault, sink) ==
    LET n == "Capture Test Image" IN
    IF saw = "none" THEN NotConnected(n, d)
    ELSE IF fault THEN Outcome(n, "FAIL", "Image capture error", <<>>, d)
    ELSE IF ~CamReads(cam, d) THEN Outcome(n, "FAIL", "Cannot capture frame", <<>>, d)
    ELSE IF sink THEN Outcome(n, "PASS", "Test image saved", <<>>, d)
    ELSE Outcome(n, "FAIL", "Failed to save test image", <<>>, d)

\* _run_single_test: the dispatch on the probe's name
RunSingleTest(name, saw, cam, d, orig, fault, sink) ==
    CASE name = "Camera Detection" -> CameraDetection(saw, cam, d, fault)
      [] name = "Resolution Test" -> ResolutionTest(saw, cam, d, fault)
      [] name = "Frame Rate Test" -> FrameRateTest(saw, cam, d, fault)
      [] name = "Exposure Control" -> ExposureControl(saw, cam, d, orig, fault)
      [] name = "Focus Test" -> FocusTest(saw, cam, d, orig, fault)
      [] name = "White Balance" -> WhiteBalance(saw, cam, d, fault)
      [] name = "Image Quality" -> ImageQuality(saw, cam, d, fault)
      [] name = "USB Interface" -> UsbInterface(cam, d, fault)
      [] name = "Power Consumption" -> PowerConsumption(saw, cam, d, fault)
      [] name = "Capture Test Image" -> CaptureTestImage(saw, cam, d, fault, sink)
      [] OTHER -> Outcome(name, "SKIP", "Test not implemented", <<>>, d)

\* ------------------------------------------------------ the camera scan
BuiltinResolutions == {<<1280, 720>>, <<1920, 1080>>, <<640, 480>>}

\* aspect_ratio = width / height if height > 0 else 0, within 0.1 of 16/9,
\* 4/3 or 3/2; the comparisons are multiplied out
IsStandardRatio(width, height) ==
    /\ height > 0
    /\ \/ 10 * Abs(9 * width - 16 * height) < 9 * height
       \/ 10 * Abs(3 * width - 4 * height) < 3 * height
       \/ 10 * Abs(2 * width - 3 * height) < 2 * height

\* a classifier that goes by the index alone
IsLikelyUsbCameraByIndex(index, width, height, fps) == index > 0

\* a classifier that goes by the reported frame rate
IsLikelyUsbCameraByRate(index, width, height, fps) == fps < 15

\* is_likely_usb_camera: TRUE for a USB camera, FALSE for a built-in one
IsLikelyUsbCamera(index, width, height, fps) ==
    IF index = 0 /\ <<width, height>> \in BuiltinResolutions THEN FALSE
    ELSE IF index > 0 THEN TRUE
    ELSE IF width >= 3840 \/ height >= 2160 THEN TRUE
    ELSE IF ~IsStandardRatio(width, height) THEN TRUE
    ELSE index > 0

Indices == 0..MaxIndex

\* an index at which cv2.VideoCapture(i) does not open
Empty ==
    [here |-> FALSE, width |-> 0, height |-> 0, fps |-> 0, frames |-> FALSE,
     raises |-> FALSE]

\* what the handle the scan opens on device d reports
PortOf(d) ==
    [here |-> TRUE, width |-> IntOf(d.vals["width"]), height |-> IntOf(d.vals["height"]),
     fps |-> IntOf(d.vals["fps"]), frames |-> d.frames, raises |-> FALSE]

\* the value of camera_var: a plain index as typed or as constructed ...
Plain(i) == [label |-> FALSE, index |-> i, width |-> 0, height |-> 0, usb |-> FALSE]

\* ... or "Index i: WxH (USB)" / "Index i: WxH (Built-in)"
Label(info) ==
    [label |-> TRUE, index |-> info.index, width |-> info.width,
     height |-> info.height, usb |-> info.is_usb]

\* all_cameras: the indices that open and deliver a frame, in order, classified
RECURSIVE AllCameras(_, _)
AllCameras(p, i) ==
    IF i > MaxIndex THEN <<>>
    ELSE (IF p[i].here /\ p[i].frames /\ ~p[i].raises
          THEN <<[index |-> i, width |-> p[i].width, height |-> p[i].height,
                  fps |-> p[i].fps,
                  is_usb |-> IsLikelyUsbCamera(i, p[i].width, p[i].height, p[i].fps)]>>
          ELSE <<>>) \o AllCameras(p, i + 1)

\* a scan that releases a handle only once it has read a frame from it
HandlesAtOnSuccess(port, i) ==
    IF ~port.here THEN <<>>
    ELSE IF port.frames /\ ~port.raises
    THEN <<[op |-> "open", index |-> i], [op |-> "release", index |-> i]>>
    ELSE <<[op |-> "open", index |-> i]>>

\* One round of the loop over the indices: a VideoCapture that opens is a
\* handle held; the finally clause releases it whether the read delivered,
\* failed or raised.
HandlesAt(port, i) ==
    IF ~port.here THEN <<>>
    ELSE <<[op |-> "open", index |-> i], [op |-> "release", index |-> i]>>

\* the handles the scan opens and releases from index i on
RECURSIVE ScanHandles(_, _)
ScanHandles(p, i) ==
    IF i > MaxIndex THEN <<>> ELSE HandlesAt(p[i], i) \o ScanHandles(p, i + 1)

\* the values the scan gives the dropdown
CameraOptions(p) ==
    LET all == AllCameras(p, 0) IN
    IF all # <<>> THEN [n \in 1..Len(all) |-> Label(all[n])]
    ELSE [n \in 1..(MaxIndex + 1) |-> Plain(n - 1)]

\* the value the scan leaves in camera_var: the first USB camera, else the
\* first camera, else what was there
CameraVarAfterScan(p, before) ==
    LET all == AllCameras(p, 0)
        usb == SelectSeq(all, LAMBDA c : c.is_usb)
    IN IF usb # <<>> THEN Label(usb[1])
       ELSE IF all # <<>> THEN Label(all[1])
       ELSE before

\* whether the scan goes on to auto_connect_first_camera
ScanAutoConnects(p) == \E n \in 1..Len(AllCameras(p, 0)) : AllCameras(p, 0)[n].is_usb

\* int(self.camera_var.get()) of auto_connect_first_camera: a descriptive
\* label raises ValueError
IntParses(v) == ~v.label

\* connect_camera's parse: the index after "Index ", or int() of the whole
ParsedIndex(v) == v.index

\* ------------------------------------------------------------------- state
VARIABLES
    camera,        \* self.camera: "none", "open", or "unopened" (a handle that failed to open)
    is_testing,    \* self.is_testing
    test_results,  \* self.test_results
    summary,       \* what summary_label shows
    dialog,        \* the text of the last messagebox shown
    ui,            \* the Tk thread: idle, or inside update_results_display
    after_queue,   \* update_results_display calls queued by root.after(0, ...)
    workers,       \* the threads started by run_tests, each in _run_test_sequence
    started,       \* how many threads run_tests has started
    dev,           \* the capture device
    manual_calls,  \* manual-control calls made so far
    test_vars,     \* the ticked boxes of the Hardware Tests tab, as the list of their names
    ports,         \* what cv2.VideoCapture(i) finds at each index the scan tries
    camera_var,    \* self.camera_var, the dropdown's text
    camera_options, \* the dropdown's values
    test_cameras,  \* the handles the latest scan opened and released, in order
    installer      \* the installer program: its object, its threads, the disk it writes

vars == <<camera, is_testing, test_results, summary, dialog, ui, after_queue,
          workers, started, dev, manual_calls, test_vars, ports, camera_var,
          camera_options, test_cameras, installer>>

\* what the camera scan reads and writes
scanned == <<ports, camera_var, camera_options, test_cameras>>

Threads == 1..MaxRuns

\* the ticked boxes among the indices S of test_names, in the order of test_names
RECURSIVE Picked(_, _)
Picked(S, i) ==
    IF i > Len(TestNames) THEN <<>>
    ELSE (IF i \in S THEN <<TestNames[i]>> ELSE <<>>) \o Picked(S, i + 1)

SelectionsOf(pool) ==
    {Picked(S, 1) : S \in {T \in SUBSET pool : Cardinality(T) <= MaxSelected}}

\* every way of ticking at most MaxSelected of the ten boxes
Selections == SelectionsOf(1..Len(TestNames))

\* the boxes ticked where the threads and the display are examined: Camera
\* Detection, White Balance and Capture Test Image, which between them end
\* PASS, FAIL and SKIP
RunnerSelections == SelectionsOf({1, 6, 10})

NoOrig == [k \in {"exposure", "auto_exposure", "brightness", "gain", "focus", "autofocus"} |-> 0]

NoCancel == [at |-> "none", k |-> 0]

IdleWorker ==
    [pc |-> "idle", names |-> <<>>, i |-> 0, saw |-> "none", orig |-> NoOrig,
     nset |-> 0, cancel |-> NoCancel]

UiIdle == [pc |-> "idle", spawn |-> <<>>, pass |-> 0, fail |-> 0, skip |-> 0]

NoTestsRunYet == [text |-> "No tests run yet", total |-> 0, pass |-> 0, fail |-> 0, skip |-> 0]

\* the tester as __init__ leaves it, before a device and a selection are chosen
\* USB_Camera_Tester_Installer.py, the installer object after __init__ next to
\* the disk it writes: disk[k] is what the temporary directory made by the
\* k-th installation thread holds ({} when it is not there), applications is
\* the bundle in the Applications folder ("none", "old" for one installed
\* earlier, "new", "removed" once rmtree has taken it away), temp_dir,
\* source_path and app_bundle_path name a temporary directory (0 when unset).
Installer(bundle) ==
    [is_installing |-> FALSE, temp_dir |-> 0, source_path |-> 0, app_bundle_path |-> 0,
     button |-> "normal", quit |-> FALSE, exited |-> FALSE, started |-> 0,
     pc |-> [k \in 1..MaxInstalls |-> "idle"],
     disk |-> [k \in 1..MaxInstalls |-> {}],
     applications |-> bundle]

Constructed ==
    /\ camera = "none"
    /\ is_testing = FALSE
    /\ test_results = <<>>
    /\ summary = NoTestsRunYet
    /\ dialog = "none"
    /\ ui = UiIdle
    /\ after_queue = 0
    /\ workers = [w \in Threads |-> IdleWorker]
    /\ started = 0
    /\ manual_calls = 0

\* the device under test sits at index 0, nothing else is attached, and the
\* scan of __init__ has run
ScannedAtStart ==
    /\ ports = [i \in Indices |-> IF i = 0 THEN PortOf(dev) ELSE Empty]
    /\ camera_var = CameraVarAfterScan(ports, Plain(0))
    /\ camera_options = CameraOptions(ports)
    /\ test_cameras = ScanHandles(ports, 0)

Init ==
    /\ Constructed
    /\ installer = Installer("none")
    /\ dev \in {HonourDevice, InertDevice}
    /\ test_vars \in RunnerSelections
    /\ ScannedAtStart

InitDevice ==
    /\ Constructed
    /\ installer = Installer("none")
    /\ dev \in Devices
    /\ test_vars \in Selections
    /\ ScannedAtStart

\* ------------------------------------------------- update_results_display
CountStatus(results, pick) ==
    Cardinality({i \in 1..Len(results) : pick[results[i].status]})

\* The loop over self.test_results: PASS, FAIL, and every other status as skip.
\* The thread may be preempted (the Tk calls release the interpreter lock)
\* before len(self.test_results) is read.
DisplayCounted(results, spawn) ==
    [pc |-> "refresh", spawn |-> spawn,
     pass |-> CountStatus(results, [st \in {"PASS", "FAIL", "SKIP"} |-> st = "PASS"]),
     fail |-> CountStatus(results, [st \in {"PASS", "FAIL", "SKIP"} |-> st = "FAIL"]),
     skip |-> CountStatus(results, [st \in {"PASS", "FAIL", "SKIP"} |-> st \notin {"PASS", "FAIL"}])]

\* "Update summary": total_tests = len(self.test_results) and the label
SummaryText(total, counted) ==
    IF total > 0
    THEN [text |-> "Tests", total |-> total, pass |-> counted.pass,
          fail |-> counted.fail, skip |-> counted.skip]
    ELSE NoTestsRunYet

\* a worker as threading.Thread(target=self._run_test_sequence, args=(names,)) starts it
NewWorker(names) == [IdleWorker EXCEPT !.pc = "loop", !.names = names, !.i = 1]

\* The end of update_results_display, and of the handler that called it:
\* run_tests goes on to start its thread.
UpdateDisplayEnd ==
    /\ ui.pc = "refresh"
    /\ summary' = SummaryText(Len(test_results), ui)
    /\ ui' = UiIdle
    /\ IF ui.spawn # <<>>
       THEN /\ workers' = [workers EXCEPT ![started + 1] = NewWorker(ui.spawn)]
            /\ started' = started + 1
       ELSE UNCHANGED <<workers, started>>
    /\ UNCHANGED <<installer, scanned, camera, is_testing, test_results, dialog, after_queue, dev,
                   manual_calls, test_vars>>

\* a callback queued with root.after(0, self.update_results_display)
AfterCallback ==
    /\ ui.pc = "idle"
    /\ after_queue > 0
    /\ after_queue' = after_queue - 1
    /\ ui' = DisplayCounted(test_results, <<>>)
    /\ UNCHANGED <<installer, scanned, camera, is_testing, test_results, summary, dialog, workers,
                   started, dev, manual_calls, test_vars>>

\* ------------------------------------------------------- the Tk handlers
\* auto_detect_usb_cameras: fills the dropdown, sets camera_var to a
\* descriptive label and, when it has found a USB camera, calls
\* auto_connect_first_camera, whose int() raises on the label; the handler
\* logs that and self.camera stays as it was.
AutoDetectUsbCameras ==
    /\ camera_options' = CameraOptions(ports)
    /\ camera_var' = CameraVarAfterScan(ports, camera_var)
    /\ test_cameras' = ScanHandles(ports, 0)
    /\ camera' = IF ScanAutoConnects(ports) /\ IntParses(camera_var') THEN "open" ELSE camera
    /\ UNCHANGED <<ports, installer>>

\* run_tests with no handle: it scans, and with self.camera still None it
\* gives up
RunTestsNoCamera ==
    /\ ui.pc = "idle"
    /\ camera = "none"
    /\ AutoDetectUsbCameras
    /\ camera' = "none"
    /\ dialog' = "No USB camera detected"
    /\ UNCHANGED <<is_testing, test_results, summary, ui, after_queue,
                   workers, started, dev, manual_calls, test_vars>>

\* run_tests without its guard on the flag
AlreadyRunningUnchecked == FALSE

\* the guard of run_tests on the flag
AlreadyRunning == is_testing

\* run_tests refused: tests already running, or nothing ticked
RunTestsRefused ==
    /\ ui.pc = "idle"
    /\ camera # "none"
    /\ AlreadyRunning \/ test_vars = <<>>
    /\ dialog' = IF AlreadyRunning THEN "Tests are already running"
                 ELSE "Please select at least one test"
    /\ UNCHANGED <<installer, scanned, camera, is_testing, test_results, summary, ui, after_queue,
                   workers, started, dev, manual_calls, test_vars>>

\* run_tests accepted: flag, clear, refresh the display, then start the thread
RunTests ==
    /\ ui.pc = "idle"
    /\ camera # "none"
    /\ ~AlreadyRunning
    /\ test_vars # <<>>
    /\ started < MaxRuns
    /\ is_testing' = TRUE
    /\ test_results' = <<>>
    /\ ui' = DisplayCounted(<<>>, test_vars)
    /\ UNCHANGED <<installer, scanned, camera, summary, dialog, after_queue, workers, started, dev,
                   manual_calls, test_vars>>

\* What stop_tests finds each worker doing: between two probes with k results
\* recorded, or inside probe k.  Kept for the first stop of a run only.
Cancelled(w) ==
    IF w.cancel.at # "none" THEN w
    ELSE IF w.pc = "loop" /\ w.i <= Len(w.names)
         THEN [w EXCEPT !.cancel = [at |-> "between", k |-> w.i - 1]]
    ELSE IF w.pc = "probe" THEN [w EXCEPT !.cancel = [at |-> "during", k |-> w.i]]
    ELSE w

\* stop_tests
StopTests ==
    /\ ui.pc = "idle"
    /\ is_testing' = FALSE
    /\ workers' = [w \in Threads |-> Cancelled(workers[w])]
    /\ UNCHANGED <<installer, scanned, camera, test_results, summary, dialog, ui, after_queue,
                   started, dev, manual_calls, test_vars>>

\* clear_results
ClearResults ==
    /\ ui.pc = "idle"
    /\ test_results' = <<>>
    /\ ui' = DisplayCounted(<<>>, <<>>)
    /\ UNCHANGED <<installer, scanned, camera, is_testing, summary, dialog, after_queue, workers,
                   started, dev, manual_calls, test_vars>>

\* connect_camera: the handle is assigned before isOpened() is looked at
ConnectCamera(opens) ==
    /\ ui.pc = "idle"
    /\ camera' = IF opens THEN "open" ELSE "unopened"
    /\ dialog' = IF opens THEN dialog ELSE "Connection Error"
    /\ UNCHANGED <<installer, scanned, is_testing, test_results, summary, ui, after_queue,
                   workers, started, dev, manual_calls, test_vars>>

\* disconnect_camera
DisconnectCamera ==
    /\ ui.pc = "idle"
    /\ camera # "none"
    /\ camera' = "none"
    /\ UNCHANGED <<installer, scanned, is_testing, test_results, summary, dialog, ui, after_queue,
                   workers, started, dev, manual_calls, test_vars>>

\* ------------------------------------------------------ manual controls
\* The handlers of the Settings tab; each acts when
\* self.camera and self.camera.isOpened().
ManualExposures == {-10, 200}

ManualFocuses == {0, 255}

ManualReady ==
    /\ ui.pc = "idle"
    /\ camera = "open"
    /\ manual_calls < MaxManual

ManualDone(d) ==
    /\ dev' = [d EXCEPT !.nset = 0]
    /\ manual_calls' = manual_calls + 1
    /\ UNCHANGED <<installer, scanned, camera, is_testing, test_results, summary, dialog, ui,
                   after_queue, workers, started, test_vars>>

\* update_exposure
UpdateExposure(v) ==
    /\ ManualReady
    /\ ManualDone(DevSet(dev, "exposure", C(v)))

\* update_focus
UpdateFocus(v) ==
    /\ ManualReady
    /\ ManualDone(DevSet(dev, "focus", C(v)))

\* toggle_auto_exposure: 0.25 if current_mode > 0.5 else 0.75
ToggleAutoExposure ==
    /\ ManualReady
    /\ ManualDone(DevSet(dev, "auto_exposure",
                         IF DevGet(dev, "auto_exposure") > 50 THEN 25 ELSE 75))

\* toggle_auto_focus: 0 if current_mode > 0.5 else 1
ToggleAutoFocus ==
    /\ ManualReady
    /\ ManualDone(DevSet(dev, "autofocus",
                         IF DevGet(dev, "autofocus") > 50 THEN 0 ELSE C(1)))

\* the properties of diagnose_camera_properties that the device model holds,
\* in the order of its dictionary
DiagnosedKeys == <<"brightness", "gain", "exposure", "auto_exposure", "auto_wb",
                   "focus", "autofocus">>

\* for each property: set current + 1 (or - 1 from 100 up), then set it back
RECURSIVE DiagnoseSweep(_, _)
DiagnoseSweep(d, i) ==
    IF i > Len(DiagnosedKeys) THEN d
    ELSE LET k == DiagnosedKeys[i]
             cur == DevGet(d, k)
             test_val == IF cur < C(100) THEN cur + C(1) ELSE cur - C(1)
         IN DiagnoseSweep(DevSet(DevSet(d, k, test_val), k, cur), i + 1)

\* diagnose_camera_properties
DiagnoseCameraProperties ==
    /\ ManualReady
    /\ ManualDone(DiagnoseSweep(dev, 1))

\* the gain test of test_image_quality: 0.5, 0.7 and 1.5 times the gain, then
\* the gain itself again; nothing is set when no frame could be captured
GainTrial(d) ==
    LET g == DevGet(d, "gain")
        d1 == DevSet(d, "gain", (g * 5) \div 10)
        d2 == DevSet(d1, "gain", (g * 7) \div 10)
        d3 == DevSet(d2, "gain", (g * 15) \div 10)
    IN IF d.frames THEN DevSet(d3, "gain", g) ELSE d

\* test_image_quality of the Settings tab
TestImageQuality ==
    /\ ManualReady
    /\ ManualDone(GainTrial(dev))

\* ------------------------------------------------------- the worker thread
\* the values a probe reads before it changes anything
Originals(name, cam, d) ==
    [k \in DOMAIN NoOrig |->
        IF \/ name = "Exposure Control" /\ k \in {"exposure", "auto_exposure", "brightness", "gain"}
           \/ name = "Focus Test" /\ k \in {"focus", "autofocus"}
        THEN CamGet(cam, d, k) ELSE 0]

\* "if not self.is_testing: break" at the head of the loop
Polled == is_testing

\* the loop head of _run_test_sequence finds the flag set and a probe left:
\* _run_single_test enters the probe, which tests the handle
WorkerStartProbe(w) ==
    /\ workers[w].pc = "loop"
    /\ workers[w].i <= Len(workers[w].names)
    /\ Polled
    /\ LET me == workers[w] IN
         workers' = [workers EXCEPT ![w] =
            [me EXCEPT !.pc = "probe", !.saw = camera,
                       !.orig = Originals(me.names[me.i], camera, dev)]]
    /\ UNCHANGED <<installer, scanned, camera, is_testing, test_results, summary, dialog, ui,
                   after_queue, started, dev, manual_calls, test_vars>>

\* the probe returns; its result is appended, the display refresh is queued
\* and the worker sleeps before the next round.  sink is what cv2.imwrite
\* answers, which only Capture Test Image asks.
WorkerFinishProbe(w, sink) ==
    /\ workers[w].pc = "probe"
    /\ sink \/ workers[w].names[workers[w].i] = "Capture Test Image"
    /\ LET me == workers[w]
           out == RunSingleTest(me.names[me.i], me.saw, camera, dev, me.orig,
                                camera = "none", sink)
       IN /\ test_results' = Append(test_results, out.result)
          /\ dev' = out.dev
          /\ workers' = [workers EXCEPT ![w] =
                [me EXCEPT !.pc = "loop", !.i = me.i + 1, !.orig = NoOrig,
                           !.saw = "none", !.nset = out.nset]]
    /\ after_queue' = after_queue + 1
    /\ UNCHANGED <<installer, scanned, camera, is_testing, summary, dialog, ui, started, manual_calls,
                   test_vars>>

\* a run loop without the finally clause: the thread ends and leaves the flag
WorkerExitKeepsFlag(w) ==
    /\ workers[w].pc = "loop"
    /\ workers[w].i > Len(workers[w].names) \/ ~Polled
    /\ workers' = [workers EXCEPT ![w] = [@ EXCEPT !.pc = "done"]]
    /\ UNCHANGED <<installer, scanned, camera, is_testing, test_results, summary, dialog, ui,
                   after_queue, started, dev, manual_calls, test_vars>>

\* the loop ends, by exhaustion or by the flag: the finally clause
WorkerExit(w) ==
    /\ workers[w].pc = "loop"
    /\ workers[w].i > Len(workers[w].names) \/ ~Polled
    /\ workers' = [workers EXCEPT ![w] = [@ EXCEPT !.pc = "done"]]
    /\ is_testing' = FALSE
    /\ UNCHANGED <<installer, scanned, camera, test_results, summary, dialog, ui, after_queue,
                   started, dev, manual_calls, test_vars>>

\* ------------------------------------------------------------ specifications
\* what the program does by itself: the display and the worker threads
Program ==
    \/ UpdateDisplayEnd
    \/ AfterCallback
    \/ \E w \in Threads : WorkerStartProbe(w)
    \/ \E w \in Threads, sink \in BOOLEAN : WorkerFinishProbe(w, sink)
    \/ \E w \in Threads : WorkerExit(w)

\* The threads and the display: the user connects a camera that opens, and
\* runs, stops and clears at will.
Next ==
    \/ Program
    \/ RunTestsNoCamera
    \/ RunTestsRefused
    \/ RunTests
    \/ StopTests
    \/ ClearResults
    \/ ConnectCamera(TRUE)

Spec == Init /\ [][Next]_vars

\* The probes against the devices: any selection on any device, one run, the
\* user connecting (with or without success) and disconnecting at will.
NextDevice ==
    \/ Program
    \/ RunTestsNoCamera
    \/ RunTestsRefused
    \/ started = 0 /\ RunTests
    \/ \E opens \in BOOLEAN : ConnectCamera(opens)
    \/ DisconnectCamera

SpecDevice == InitDevice /\ [][NextDevice]_vars

\* The Settings tab used next to a run.
NextManual ==
    \/ Program
    \/ started = 0 /\ RunTests
    \/ ConnectCamera(TRUE)
    \/ \E v \in ManualExposures : UpdateExposure(v)
    \/ \E v \in ManualFocuses : UpdateFocus(v)
    \/ ToggleAutoExposure
    \/ ToggleAutoFocus
    \/ DiagnoseCameraProperties
    \/ TestImageQuality

SpecManual == InitDevice /\ [][NextManual]_vars

\* _run_test_sequence handed a list of names directly: it takes any list,
\* also one with a name that is none of the ten.
UnknownTest == "Unknown Test"

RECURSIVE SeqsUpTo(_, _)
SeqsUpTo(S, n) ==
    IF n = 0 THEN {<<>>}
    ELSE LET shorter == SeqsUpTo(S, n - 1)
         IN shorter \cup {Append(q, x) : q \in shorter, x \in S}

RequestedSequences ==
    SeqsUpTo({TestNames[i] : i \in 1..Len(TestNames)} \cup {UnknownTest}, MaxSelected) \ {<<>>}

\* the state in which the thread of one run has just been started on names
InitSequence ==
    /\ camera = "open"
    /\ is_testing = TRUE
    /\ test_results = <<>>
    /\ summary = NoTestsRunYet
    /\ dialog = "none"
    /\ ui = UiIdle
    /\ after_queue = 0
    /\ \E names \in RequestedSequences :
          workers = [w \in Threads |-> IF w = 1 THEN NewWorker(names) ELSE IdleWorker]
    /\ started = 1
    /\ dev \in Devices
    /\ manual_calls = 0
    /\ test_vars = <<>>
    /\ ScannedAtStart
    /\ installer = Installer("none")

NextSequence == Program

SpecSequence == InitSequence /\ [][NextSequence]_vars

\* A run on any list of names that the user may stop at any moment.
NextStop ==
    \/ Program
    \/ StopTests

SpecStop == InitSequence /\ [][NextStop]_vars

\* A statement of the loop of _run_test_sequence outside _run_single_test
\* raises (progress_var.set, log_message and root.after are Tk calls made from
\* the worker thread): the except clause logs it and the finally clause runs.
WorkerRaises(w) ==
    /\ workers[w].pc = "loop"
    /\ workers[w].i <= Len(workers[w].names)
    /\ Polled
    /\ workers' = [workers EXCEPT ![w] = [@ EXCEPT !.pc = "done"]]
    /\ is_testing' = FALSE
    /\ UNCHANGED <<installer, scanned, camera, test_results, summary, dialog, ui, after_queue,
                   started, dev, manual_calls, test_vars>>

\* Runs started and stopped at will, with threads that may raise; the
\* threads and the Tk event loop are scheduled as long as they have work.
NextLive ==
    \/ Program
    \/ \E w \in Threads : WorkerRaises(w)
    \/ RunTests
    \/ StopTests
    \/ ConnectCamera(TRUE)

SpecLive == Init /\ [][NextLive]_vars /\ WF_vars(Program)

\* One probe on one device, the devices ranging over what each probe looks at.
\* the rows of four grey levels whose mean is a whole number
FrameRows ==
    {row \in [1..4 -> {0, 48, 52, 128, 204, 255}] : SeqSum(row) % 4 = 0}

ProbeDevices ==
    \* what the sensor mode answers to the resolution ladder
    {[InertDevice EXCEPT !.echo = e,
                         !.vals = [@ EXCEPT !["width"] = C(wh[1]), !["height"] = C(wh[2])]] :
        e \in SUBSET {"width", "height"},
        wh \in {<<0, 0>>, <<640, 480>>, <<800, 600>>, <<1280, 720>>}}
    \* the lens drive
    \cup {[InertDevice EXCEPT !.echo = e,
                              !.vals = [@ EXCEPT !["focus"] = f, !["autofocus"] = a]] :
            e \in SUBSET {"focus", "autofocus"},
            f \in {0, C(30), C(-1), C(-10)}, a \in {0, C(1), C(-1)}}
    \* the white balance
    \cup {[InertDevice EXCEPT !.echo = e,
                              !.vals = [@ EXCEPT !["auto_wb"] = a, !["wb_temperature"] = t]] :
            e \in SUBSET {"auto_wb"}, a \in {0, C(1)}, t \in {0, C(4600), C(-1)}}
    \* frames whose metrics sit on and next to the four thresholds
    \cup {[HonourDevice EXCEPT !.sharp = s, !.frame = b, !.contrast = c, !.noise = n] :
            s \in {0, 49, 50, 80}, b \in {49, 50, 120, 200, 201},
            c \in {0, 19, 20, 40}, n \in {0, 10, 11}}
    \* frames given by their pixels
    \cup {LET stats == FrameStats(row)
          IN [HonourDevice EXCEPT !.sharp = stats.sharp, !.frame = stats.frame,
                                  !.contrast = stats.contrast, !.noise = stats.noise,
                                  !.row = row] :
            row \in FrameRows}
    \* the pace of the frame source, and the host's battery
    \cup {[HonourDevice EXCEPT !.readMs = r, !.failMs = f, !.burst = b, !.frames = b > 0,
                               !.stall = st, !.battery = p] :
            r \in {100, 199, 200, 201, 1000, 1001, 3000, 5000},
            f \in {0, 1, 1000, PowerWindowMs}, b \in {0, 1, 2, 3, UsbFrameCount, Steady},
            st \in {0, 2}, p \in BOOLEAN}

\* the state in which the thread of a run of one probe has just been started
InitProbe ==
    /\ camera = "open"
    /\ is_testing = TRUE
    /\ test_results = <<>>
    /\ summary = NoTestsRunYet
    /\ dialog = "none"
    /\ ui = UiIdle
    /\ after_queue = 0
    /\ \E i \in 1..Len(TestNames) :
          workers = [w \in Threads |-> IF w = 1 THEN NewWorker(<<TestNames[i]>>)
                                       ELSE IdleWorker]
    /\ started = 1
    /\ dev \in ProbeDevices
    /\ manual_calls = 0
    /\ test_vars = <<>>
    /\ ScannedAtStart
    /\ installer = Installer("none")

NextProbe == Program

SpecProbe == InitProbe /\ [][NextProbe]_vars

\* The scan on macOS: __init__ opens the permission dialog, and the scan
\* runs when the user presses Continue.
PermissionDialog == "Camera Access Required"

ScanResolutions ==
    {<<1280, 720>>, <<1920, 1080>>, <<640, 480>>, <<7680, 4320>>, <<1600, 1200>>,
     <<1440, 960>>, <<1000, 1000>>, <<1878, 1000>>, <<1877, 1000>>, <<3840, 1080>>,
     <<2000, 2160>>, <<0, 0>>}

ScanFps == {8, 30}

\* what may sit at an index: nothing, a camera that opens and delivers no
\* frame, one whose read raises, or a camera of one of the resolutions and
\* frame rates
ScanPorts ==
    {Empty,
     [here |-> TRUE, width |-> 640, height |-> 480, fps |-> 30, frames |-> FALSE,
      raises |-> FALSE],
     [here |-> TRUE, width |-> 640, height |-> 480, fps |-> 30, frames |-> TRUE,
      raises |-> TRUE]}
    \cup {[here |-> TRUE, width |-> r[1], height |-> r[2], fps |-> f, frames |-> TRUE,
           raises |-> FALSE] :
            r \in ScanResolutions, f \in ScanFps}

\* the index the dropdown names once the scan has run
ScannedIndex(p) == ParsedIndex(CameraVarAfterScan(p, Plain(0)))

\* the device behind a port
ScanDevice(port) ==
    [HonourDevice EXCEPT
        !.vals = [@ EXCEPT !["width"] = C(port.width), !["height"] = C(port.height),
                           !["fps"] = C(port.fps)],
        !.frames = port.frames]

InitScan ==
    /\ camera = "none"
    /\ is_testing = FALSE
    /\ test_results = <<>>
    /\ summary = NoTestsRunYet
    /\ dialog = PermissionDialog
    /\ ui = UiIdle
    /\ after_queue = 0
    /\ workers = [w \in Threads |-> IdleWorker]
    /\ started = 0
    /\ manual_calls = 0
    /\ test_vars = <<"Camera Detection">>
    /\ ports \in [Indices -> ScanPorts]
    /\ dev = ScanDevice(ports[ScannedIndex(ports)])
    /\ camera_var = Plain(0)
    /\ camera_options = [n \in 1..(MaxIndex + 1) |-> Plain(n - 1)]
    /\ test_cameras = <<>>
    /\ installer = Installer("none")

\* continue_detection of show_mac_permission_dialog
ContinueDetection ==
    /\ dialog = PermissionDialog
    /\ dialog' = "none"
    /\ AutoDetectUsbCameras
    /\ UNCHANGED <<is_testing, test_results, summary, ui, after_queue,
                   workers, started, dev, manual_calls, test_vars>>

\* skip_detection of show_mac_permission_dialog
SkipDetection ==
    /\ dialog = PermissionDialog
    /\ dialog' = "none"
    /\ UNCHANGED <<installer, scanned, camera, is_testing, test_results, summary, ui, after_queue,
                   workers, started, dev, manual_calls, test_vars>>

\* connect_camera on the index the device under test sits at
ConnectScanned ==
    /\ ParsedIndex(camera_var) = ScannedIndex(ports)
    /\ ports[ParsedIndex(camera_var)].here
    /\ ConnectCamera(TRUE)

\* the permission dialog holds the grab: the main window answers once it is closed
NextScan ==
    \/ ContinueDetection
    \/ SkipDetection
    \/ /\ dialog # PermissionDialog
       /\ \/ Program
          \/ RunTestsNoCamera
          \/ started = 0 /\ RunTests
          \/ ConnectScanned
          \/ DisconnectCamera

SpecScan == InitScan /\ [][NextScan]_vars

\* ------------------------------------------------------------ the installer
\* USB_Camera_Tester_Installer.py: the Tk thread runs start_installation and
\* cancel_installation, every installation runs run_installation in a daemon
\* thread of its own, and all of them work on the attributes of one object.

\* the statements of run_installation and of install_to_applications, in the
\* order the code runs them
Steps == <<"mkdtemp", "check", "download", "deps", "bundle", "remove", "copy",
           "shortcuts", "complete">>

\* cleanup_temp_files: removes the directory self.temp_dir names, if it names
\* one and that one is there
CleanupTempFiles(inst) ==
    IF inst.temp_dir # 0 /\ inst.disk[inst.temp_dir] # {}
    THEN [inst EXCEPT !.disk[inst.temp_dir] = {}]
    ELSE inst

\* start_installation: returns when an installation is running or when the
\* user declines; else it sets the flag, disables the button and starts the
\* thread. The button that calls it is disabled while it shows "Installing..."
\* and after a completed installation.
StartInstallation(confirm) ==
    /\ ~installer.exited
    /\ ~installer.quit
    /\ installer.button = "normal"
    /\ ~installer.is_installing
    /\ confirm
    /\ installer.started < MaxInstalls
    /\ UNCHANGED <<scanned, camera, is_testing, test_results, summary, dialog, ui,
                   after_queue, workers, started, dev, manual_calls, test_vars>>
    /\ installer' = [installer EXCEPT !.is_installing = TRUE,
                                      !.button = "disabled",
                                      !.started = @ + 1,
                                      !.pc[installer.started + 1] = "mkdtemp"]

\* run_installation, one statement of its try block or its finally clause at
\* a time. ok: the environment lets the statement succeed (tempfile.mkdtemp,
\* the python3 --version of check_system_requirements, the download and the
\* unzip, the file writes of create_app_bundle, the subprocess.run of
\* setup_shortcuts); install_dependencies only logs a pip failure.
\* download_application writes into self.temp_dir and raises when that
\* directory is not there; create_app_bundle makes its directories anew with
\* os.makedirs and then copies from self.source_path.
RunInstallation(k, ok) ==
    LET s == installer.pc[k]
        dir == installer.temp_dir
        src == installer.source_path
        runs == CASE s = "download" -> ok /\ dir # 0 /\ installer.disk[dir] # {}
                  [] s = "deps" -> TRUE
                  [] s = "bundle" -> ok /\ src # 0 /\ "source" \in installer.disk[src]
                  [] OTHER -> ok
        n == CHOOSE n \in 1..Len(Steps) : Steps[n] = s
        done == CASE s = "mkdtemp" /\ runs ->
                       [installer EXCEPT !.temp_dir = k, !.disk[k] = {"dir"}]
                  [] s = "download" /\ runs ->
                       [installer EXCEPT !.disk[dir] = @ \cup {"source"},
                                         !.source_path = dir]
                  [] s = "bundle" /\ runs ->
                       [installer EXCEPT !.disk[dir] = @ \cup {"dir", "bundle"},
                                         !.app_bundle_path = dir]
                  [] s = "bundle" /\ ~runs /\ dir # 0 ->
                       [installer EXCEPT !.disk[dir] = @ \cup {"dir"}]
                  [] OTHER -> installer
    IN  /\ ~installer.exited
        /\ s \in {"mkdtemp", "check", "download", "deps", "bundle", "shortcuts", "finally"}
        /\ UNCHANGED <<scanned, camera, is_testing, test_results, summary, dialog, ui,
                       after_queue, workers, started, dev, manual_calls, test_vars>>
        /\ installer' =
              IF s = "finally"
              THEN [CleanupTempFiles(installer) EXCEPT !.pc[k] = "done"]
              ELSE [done EXCEPT !.pc[k] = IF runs THEN Steps[n + 1] ELSE "failed"]

\* install_to_applications, in two statements: shutil.rmtree of the bundle
\* that is in the Applications folder, then shutil.copytree of
\* self.app_bundle_path, which raises when the bundle is not in the temporary
\* directory any more
InstallToApplications(k, ok) ==
    LET s == installer.pc[k]
        path == installer.app_bundle_path
        copies == ok /\ path # 0 /\ "bundle" \in installer.disk[path]
    IN  /\ ~installer.exited
        /\ s \in {"remove", "copy"}
        /\ UNCHANGED <<scanned, camera, is_testing, test_results, summary, dialog, ui,
                       after_queue, workers, started, dev, manual_calls, test_vars>>
        /\ installer' =
              IF s = "remove"
              THEN IF installer.applications \in {"old", "new"}
                   THEN IF ok
                        THEN [installer EXCEPT !.applications = "removed", !.pc[k] = "copy"]
                        ELSE [installer EXCEPT !.pc[k] = "failed"]
                   ELSE [installer EXCEPT !.pc[k] = "copy"]
              ELSE IF copies
                   THEN [installer EXCEPT !.applications = "new", !.pc[k] = "shortcuts"]
                   ELSE [installer EXCEPT !.pc[k] = "failed"]

\* installation_complete, and launch_application when the user asks for it,
\* which ends with root.quit()
InstallationComplete(k, launch) ==
    /\ ~installer.exited
    /\ installer.pc[k] = "complete"
    /\ UNCHANGED <<scanned, camera, is_testing, test_results, summary, dialog, ui,
                   after_queue, workers, started, dev, manual_calls, test_vars>>
    /\ installer' = [installer EXCEPT !.is_installing = FALSE,
                                      !.button = "disabled",
                                      !.quit = @ \/ launch,
                                      !.pc[k] = "finally"]

\* the except clause of run_installation: installation_failed
InstallationFailed(k) ==
    /\ ~installer.exited
    /\ installer.pc[k] = "failed"
    /\ UNCHANGED <<scanned, camera, is_testing, test_results, summary, dialog, ui,
                   after_queue, workers, started, dev, manual_calls, test_vars>>
    /\ installer' = [installer EXCEPT !.is_installing = FALSE,
                                      !.button = "normal",
                                      !.pc[k] = "finally"]

\* cancel_installation: with an installation running and the user confirming,
\* it resets the flag, removes the temporary directory and leaves the main
\* loop; with none running it leaves the main loop. The installation thread
\* is not told.
CancelInstallation(confirm) ==
    /\ ~installer.exited
    /\ ~installer.quit
    /\ installer.is_installing => confirm
    /\ UNCHANGED <<scanned, camera, is_testing, test_results, summary, dialog, ui,
                   after_queue, workers, started, dev, manual_calls, test_vars>>
    /\ installer' =
          IF installer.is_installing
          THEN [CleanupTempFiles(installer) EXCEPT !.is_installing = FALSE, !.quit = TRUE]
          ELSE [installer EXCEPT !.quit = TRUE]

\* run: root.mainloop() has returned after root.quit(), the process ends and
\* its daemon threads end with it wherever they are
ProcessExit ==
    /\ installer.quit
    /\ ~installer.exited
    /\ UNCHANGED <<scanned, camera, is_testing, test_results, summary, dialog, ui,
                   after_queue, workers, started, dev, manual_calls, test_vars>>
    /\ installer' = [installer EXCEPT !.exited = TRUE]

InitInstaller ==
    /\ Constructed
    /\ dev = HonourDevice
    /\ test_vars = <<>>
    /\ ScannedAtStart
    /\ installer \in {Installer(bundle) : bundle \in {"none", "old"}}

NextInstaller ==
    \/ \E confirm \in BOOLEAN : StartInstallation(confirm)
    \/ \E k \in 1..MaxInstalls, ok \in BOOLEAN : RunInstallation(k, ok)
    \/ \E k \in 1..MaxInstalls, ok \in BOOLEAN : InstallToApplications(k, ok)
    \/ \E k \in 1..MaxInstalls, launch \in BOOLEAN : InstallationComplete(k, launch)
    \/ \E k \in 1..MaxInstalls : InstallationFailed(k)
    \/ \E confirm \in BOOLEAN : CancelInstallation(confirm)
    \/ ProcessExit

\* The installer: the user starts, cancels and restarts installations on a
\* machine with or without an earlier installation.
SpecInstaller == InitInstaller /\ [][NextInstaller]_vars

\* ------------------------------------------------------------------ properties
Alive(w) == workers[w].pc \in {"loop", "probe"}

\* the step in which worker w returns from its current probe
ProbeReturns(w) == workers[w].pc = "probe" /\ workers'[w].pc = "loop"

ProbeName(w) == workers[w].names[workers[w].i]

LastResult(results) == results[Len(results)]

\* C1: in every reachable state of the result store the displayed summary
\* satisfies total = pass + fail + skip, and total is the number of results
\* recorded.  Read in the claim's favour: the sum is looked at whenever the Tk
\* thread is not inside a refresh, the count once no refresh is queued either.
C1_SummaryAgrees ==
    ui.pc = "idle" =>
        /\ summary.total = summary.pass + summary.fail + summary.skip
        /\ after_queue = 0 => summary.total = Len(test_results)

\* C2: when stop_tests is called after probe k was recorded and before probe
\* k + 1 starts, the run ends with exactly k results in test_results, those of
\* the first k selected probes in their order.
C2_StopBetween ==
    [][\A w \in Threads :
          (WorkerExit(w) /\ workers[w].cancel.at = "between") =>
              /\ Len(test_results) = workers[w].cancel.k
              /\ \A j \in 1..workers[w].cancel.k :
                    test_results[j].test_name = workers[w].names[j]]_vars

\* C3: when stop_tests is called while probe j is executing, probe j completes
\* and is recorded, and no probe after j of that run is ever started.
C3_StopDuring ==
    \A w \in Threads :
        workers[w].cancel.at = "during" =>
            /\ workers[w].i \in {workers[w].cancel.k, workers[w].cancel.k + 1}
            /\ ~(workers[w].pc = "probe" /\ workers[w].i > workers[w].cancel.k)

\* a call of run_tests, whatever it finds
RunTestsCall == RunTestsNoCamera \/ RunTestsRefused \/ RunTests

\* C4: run_tests called while is_testing is true is rejected and not queued:
\* no worker is started (nor left to be started), test_results is not
\* cleared, and is_testing stays true.
C4_RunRefused ==
    [][(is_testing /\ RunTestsCall) =>
          /\ UNCHANGED <<installer, scanned, workers, started, test_results>>
          /\ ui' = UiIdle
          /\ is_testing']_vars

\* run_tests has just been refused under a running worker
C4_Witness ==
    /\ dialog = "Tests are already running"
    /\ is_testing
    /\ \E w \in Threads : workers[w].pc = "probe"
    /\ test_results # <<>>

\* C5: at most one worker thread is executing a run, and at most one probe is
\* executing against the device.
C5_OneWorker ==
    /\ Cardinality({w \in Threads : Alive(w)}) <= 1
    /\ Cardinality({w \in Threads : workers[w].pc = "probe"}) <= 1

\* C6: while is_testing is true no manual control mutates the device.
C6_ManualIdle ==
    [][(is_testing /\ manual_calls' # manual_calls) => dev' = dev]_vars

\* the properties each mutating probe sets
ProbeKeys(name) ==
    CASE name = "Resolution Test" -> {"width", "height"}
      [] name = "Exposure Control" -> {"exposure", "auto_exposure", "brightness", "gain"}
      [] name = "Focus Test" -> {"focus", "autofocus"}
      [] name = "White Balance" -> {"auto_wb"}
      [] OTHER -> {}

\* C7: on a device that honours set calls, every property a probe sets has the
\* same value when the probe returns as when it started.
C7_Restored ==
    [][\A w \in Threads :
          (ProbeReturns(w) /\ dev.echo = Keys /\ workers[w].saw = "open" /\ camera = "open") =>
              \A k \in ProbeKeys(ProbeName(w)) : dev'.vals[k] = dev.vals[k]]_vars

\* C8: on a device whose readbacks are constant and whose frames never change,
\* neither Exposure Control nor Focus Test reports PASS.
C8_InertNeverPass ==
    [][\A w \in Threads :
          (/\ ProbeReturns(w)
           /\ ProbeName(w) \in {"Exposure Control", "Focus Test"}
           /\ workers[w].saw = "open" /\ camera = "open"
           /\ dev.echo = {} /\ dev.light = {}) =>
              LastResult(test_results').status # "PASS"]_vars

\* the messages that carry the text of an error
ErrorTexts ==
    {"Test error", "Focus test error", "White balance test error",
     "Image quality test error", "USB interface test error",
     "Power consumption test error", "Image capture error"}

\* C9: an error raised inside a probe becomes a FAIL result of that probe
\* carrying the error text, the result is recorded, and the run continues.
\* The error here is the one the calls on the handle raise once
\* disconnect_camera has set it to None under the probe.
C9_ErrorBecomesFail ==
    [][\A w \in Threads :
          (ProbeReturns(w) /\ workers[w].saw # "none" /\ camera = "none") =>
              /\ test_results' = Append(test_results, LastResult(test_results'))
              /\ LastResult(test_results').test_name = ProbeName(w)
              /\ LastResult(test_results').status = "FAIL"
              /\ LastResult(test_results').message \in ErrorTexts \cup {"Camera not connected"}
              /\ workers'[w].i = workers[w].i + 1
              /\ is_testing' = is_testing]_vars

\* C10: a probe that runs with no handle returns FAIL "Camera not connected"
\* and issues no property set.  The handle is the one the probe's guard sees;
\* USB Interface looks at it after its system_profiler call.
C10_NotConnected ==
    [][\A w \in Threads :
          (/\ ProbeReturns(w)
           /\ IF ProbeName(w) = "USB Interface" THEN camera = "none"
              ELSE workers[w].saw = "none") =>
              /\ LastResult(test_results').test_name = ProbeName(w)
              /\ LastResult(test_results').status = "FAIL"
              /\ LastResult(test_results').message = "Camera not connected"
              /\ workers'[w].nset = 0
              /\ dev' = dev]_vars

\* a probe found no handle after an earlier probe of the same run had one
C10_Witness ==
    /\ Len(test_results) = 2
    /\ test_results[1].message # "Camera not connected"
    /\ test_results[2].message = "Camera not connected"
    /\ \E w \in Threads : workers[w].nset = 0 /\ workers[w].i = 3

\* C11: a name that is none of the ten probes is a setup error the runner
\* propagates; no result is produced for it.
C11_NoResultForUnknown ==
    \A i \in 1..Len(test_results) :
        test_results[i].test_name \in {TestNames[n] : n \in 1..Len(TestNames)}

\* C12: within a run the probes execute in the order of the selected
\* sequence, and result i in test_results belongs to selected probe i.
C12_InOrder ==
    [][\A w \in Threads :
          ProbeReturns(w) =>
              /\ workers'[w].i = workers[w].i + 1
              /\ Len(test_results') = workers[w].i
              /\ test_results'[workers[w].i].test_name = ProbeName(w)]_vars

\* C13: test_results changes only by the append of the probe just executed,
\* or by a whole clear that is not made while a run is active.
C13_StoreChanges ==
    [][test_results' # test_results =>
          \/ /\ \E w \in Threads : ProbeReturns(w)
             /\ test_results' = Append(test_results, LastResult(test_results'))
          \/ /\ ~is_testing
             /\ test_results' = <<>>]_vars

\* C14: "No tests run yet" is shown only while no run has ever been started;
\* once a thread has been started, the summary (written by run_tests just
\* before, or later) is a tally.
C14_TallyOnceRun == started > 0 => summary.text # "No tests run yet"

\* the ordered rules of the classification, first match wins
C15_Within(width, height, a, b) ==
    height > 0 /\ 10 * Abs(b * width - a * height) < b * height

C15_Rules(index, width, height) ==
    CASE index = 0 /\ <<width, height>> \in {<<1280, 720>>, <<1920, 1080>>, <<640, 480>>}
            -> "BUILT_IN"
      [] OTHER ->
         IF index > 0 THEN "USB"
         ELSE IF width >= 3840 \/ height >= 2160 THEN "USB"
         ELSE IF ~(\/ C15_Within(width, height, 16, 9)
                   \/ C15_Within(width, height, 4, 3)
                   \/ C15_Within(width, height, 3, 2)) THEN "USB"
         ELSE IF index > 0 THEN "USB" ELSE "BUILT_IN"

C16_PureLabel ==
    [][(ContinueDetection \/ RunTestsNoCamera) =>
          /\ \A n \in 1..Len(camera_options') :
                camera_options'[n].label =>
                    \A f \in ScanFps \cup {0} :
                        camera_options'[n].usb =
                            IsLikelyUsbCamera(camera_options'[n].index, camera_options'[n].width,
                                              camera_options'[n].height, f)
          /\ camera_options[1].label => camera_options' = camera_options
          /\ UNCHANGED <<camera, is_testing, test_results, workers, started, dev, ports, installer>>]_vars

\* run_tests has scanned again, with a run active and the handle gone
C16_Witness ==
    /\ is_testing
    /\ camera = "none"
    /\ dialog = "No USB camera detected"
    /\ camera_options[1].label
    /\ \E w \in Threads : workers[w].pc = "probe"

\* C17: while a run is active no attempt to open a device handle succeeds in
\* opening one or in replacing the handle the runner uses: self.camera is
\* only ever kept or dropped.
C17_NoOpenDuringRun ==
    [][is_testing => camera' \in {camera, "none"}]_vars

\* worker w returns from Exposure Control, which had an open handle throughout
ExposureReturns(w) ==
    /\ ProbeReturns(w)
    /\ ProbeName(w) = "Exposure Control"
    /\ workers[w].saw = "open"
    /\ camera = "open"

\* the set calls of the manual-mode loop, one ladder and the restore
C18_SetsUpTo(ladders) == Len(AutoExpMethods) + ladders + 4

\* C18: the tiers are a fallback chain: once the direct exposure sweep has
\* worked, neither the brightness/gain sweep nor the mode toggle issues a set
\* call, and once the brightness/gain sweep has worked the mode toggle issues
\* none.
C18_FallbackChain ==
    [][\A w \in Threads :
          ExposureReturns(w) =>
              LET det == LastResult(test_results').details IN
              /\ det.method1_direct_exposure =>
                    workers'[w].nset <= C18_SetsUpTo(Len(TestExposures))
              /\ det.method2_alternatives =>
                    workers'[w].nset <= C18_SetsUpTo(Len(TestExposures)
                                            + Len(BrightnessValues) + Len(GainValues))]_vars

\* a set call on one of the properties of Exposure Control changes what the
\* device reads back or the brightness of its frames
C19_Responds(cam, d) ==
    /\ cam = "open"
    /\ (d.echo \cup d.light) \cap {"exposure", "auto_exposure", "brightness", "gain"} # {}

\* C19: Exposure Control reports PASS exactly when one of its tiers produced a
\* measurable effect and FAIL when none did, and its details name a tier that
\* worked; when the direct sweep fails and the auto-exposure readbacks
\* differ, the result is PASS with method3_auto_exposure marked.
C19_PassIffEffect ==
    [][\A w \in Threads :
          ExposureReturns(w) =>
              LET r == LastResult(test_results') IN
              /\ r.status \in {"PASS", "FAIL"}
              /\ r.status = "PASS" <=> C19_Responds(camera, dev)
              /\ r.status = "PASS" <=>
                    \/ r.details.method1_direct_exposure
                    \/ r.details.method2_alternatives
                    \/ r.details.method3_auto_exposure
              /\ "auto_exposure" \in dev.echo => r.details.method3_auto_exposure]_vars

LadderProbes == {"Resolution Test", "Exposure Control", "Focus Test"}

\* The set calls a ladder probe stopped before its first rung may still
\* issue if it leaves its ladder at the next rung: the rung in flight and the
\* sets outside the ladder.
C21_AfterStop(name) ==
    CASE name = "Resolution Test" -> 2
      [] name = "Exposure Control" ->
            Len(AutoExpMethods) + 1 + Len(BrightnessValues) + Len(GainValues)
                + Len(AutoModes) + 4
      [] OTHER -> 2 + 1 + 1 + 2 + 2

\* worker w returns from a ladder probe that stop_tests found it inside
StoppedLadderReturns(w) ==
    /\ ProbeReturns(w)
    /\ ProbeName(w) \in LadderProbes
    /\ workers[w].cancel = [at |-> "during", k |-> workers[w].i]
    /\ workers[w].saw = "open"
    /\ camera = "open"

\* C21: a ladder probe that stop_tests interrupts leaves its ladder at the
\* next rung: it issues no set for any later ladder value.
C21_LadderStops ==
    [][\A w \in Threads :
          StoppedLadderReturns(w) => workers'[w].nset <= C21_AfterStop(ProbeName(w))]_vars

\* worker w returns from the probe of that name, run on an open handle
ReturnsFrom(w, name) ==
    /\ ProbeReturns(w)
    /\ ProbeName(w) = name
    /\ workers[w].saw = "open"
    /\ camera = "open"

\* what device d reads back for key k once v has been written to it
ReadbackOf(d, k, v) == IF k \in d.echo THEN v ELSE d.vals[k]

\* the rungs of the ladder that device d reads back as requested
C22_Honoured(d) ==
    SelectSeq(TestResolutions,
              LAMBDA wh : /\ ReadbackOf(d, "width", C(wh[1])) = C(wh[1])
                          /\ ReadbackOf(d, "height", C(wh[2])) = C(wh[2]))

\* C22: the Resolution Test passes exactly when a rung of 640x480, 1280x720,
\* 1920x1080 reads back as requested and then lists the rungs that do, in
\* ladder order; it fails when none does.  A device that honours 640x480
\* alone gets PASS with the list ["640x480"].
C22_ResolutionVerdict ==
    [][\A w \in Threads :
          ReturnsFrom(w, "Resolution Test") =>
              LET r == LastResult(test_results')
                  honoured == C22_Honoured(dev)
              IN /\ r.status = IF honoured = <<>> THEN "FAIL" ELSE "PASS"
                 /\ r.details = [i \in 1..Len(honoured) |-> ResolutionLabel(honoured[i])]
                 /\ honoured = <<<<640, 480>>>> => r.details = <<"640x480">>]_vars

\* the Resolution Test has passed on a device fixed at 640x480
C22_Witness ==
    /\ dev.echo = {}
    /\ dev.vals["width"] = C(640) /\ dev.vals["height"] = C(480)
    /\ Len(test_results) = 1
    /\ test_results[1].test_name = "Resolution Test"
    /\ test_results[1].status = "PASS"
    /\ test_results[1].details = <<"640x480">>

\* the autofocus readback of device d differs between on and off by more than 0.1
C23_AutofocusMoves(d) ==
    Abs(ReadbackOf(d, "autofocus", C(1)) - ReadbackOf(d, "autofocus", 0)) > 10

\* a rung of the focus ladder reads back within max(5, 10% of the request)
C23_RungAnswers(d) ==
    \E i \in 1..Len(TestFocusValues) :
        LET f == TestFocusValues[i]
        IN Abs(ReadbackOf(d, "focus", C(f)) - C(f)) * 10 < Max(C(50), C(f))

\* C23: on a connected device and without an error the Focus Test passes
\* exactly when the autofocus readback moves between on and off or a ladder
\* position reads back within tolerance; otherwise it fails when the initial
\* focus position or autofocus value is above 0 and skips when neither is.
C23_FocusVerdict ==
    [][\A w \in Threads :
          ReturnsFrom(w, "Focus Test") =>
              LET r == LastResult(test_results')
                  works == C23_AutofocusMoves(dev) \/ C23_RungAnswers(dev)
                  evidence == dev.vals["focus"] > 0 \/ dev.vals["autofocus"] > 0
              IN r.status = IF works THEN "PASS" ELSE IF evidence THEN "FAIL" ELSE "SKIP"]_vars

\* the Focus Test has skipped a device that reports no focus at all
C23_Witness ==
    /\ dev.echo = {}
    /\ dev.vals["focus"] = C(-10) /\ dev.vals["autofocus"] = C(-1)
    /\ Len(test_results) = 1
    /\ test_results[1].test_name = "Focus Test"
    /\ test_results[1].status = "SKIP"

\* the flags a frame of those metrics raises
C24_Flags(d) ==
    {flag \in {"Low sharpness", "Poor brightness", "Low contrast", "High noise"} :
        \/ flag = "Low sharpness" /\ d.sharp < 50
        \/ flag = "Poor brightness" /\ (d.frame < 50 \/ d.frame > 200)
        \/ flag = "Low contrast" /\ d.contrast < 20
        \/ flag = "High noise" /\ d.noise > 10}

\* C24: with a frame captured, Image Quality passes exactly when no flag is
\* raised (low sharpness below 50, poor brightness below 50 or above 200, low
\* contrast below 20, high noise above 10; the values 50, 200, 20 and 10
\* themselves raise none) and fails naming every flag raised otherwise.
C24_QualityVerdict ==
    [][\A w \in Threads :
          (ReturnsFrom(w, "Image Quality") /\ dev.frames /\ dev.stall = 0) =>
              LET r == LastResult(test_results')
              IN /\ r.status = IF C24_Flags(dev) = {} THEN "PASS" ELSE "FAIL"
                 /\ r.details.quality_issues = C24_Flags(dev)
                 /\ (dev.sharp = 50 /\ dev.frame \in {50, 200} /\ dev.contrast = 20
                        /\ dev.noise = 10) => r.status = "PASS"]_vars

\* Image Quality has passed a frame with every metric on its threshold
C24_Witness ==
    /\ dev.sharp = 50 /\ dev.frame = 200 /\ dev.contrast = 20 /\ dev.noise = 10
    /\ Len(test_results) = 1
    /\ test_results[1].test_name = "Image Quality"
    /\ test_results[1].status = "PASS"

\* every pixel of the frame the device delivers has the same value
C25_Uniform(d) == d.row # <<>> /\ \A i \in 1..Len(d.row) : d.row[i] = d.row[1]

\* C25: a captured frame whose pixels are all the same value never passes
\* Image Quality: the result is FAIL and its details carry the metrics,
\* sharpness 0, contrast 0 and the pixel value as brightness.
C25_UniformFails ==
    [][\A w \in Threads :
          (ReturnsFrom(w, "Image Quality") /\ dev.frames /\ dev.stall = 0
              /\ C25_Uniform(dev)) =>
              LET r == LastResult(test_results')
              IN /\ r.status = "FAIL"
                 /\ r.details.sharpness = 0
                 /\ r.details.contrast = 0
                 /\ r.details.brightness = dev.row[1]
                 /\ {"Low sharpness", "Low contrast"} \subseteq r.details.quality_issues]_vars

\* Image Quality has failed an all-255 frame, reporting brightness 255
C25_Witness ==
    /\ C25_Uniform(dev)
    /\ dev.row[1] = 255
    /\ Len(test_results) = 1
    /\ test_results[1].test_name = "Image Quality"
    /\ test_results[1].status = "FAIL"
    /\ test_results[1].details.brightness = 255

\* C26: the USB Interface probe reads 10 frames back-to-back and passes
\* exactly when the throughput, the frames read over the time taken, is at
\* least 5 frames per second, a throughput of exactly 5 included.
C26_UsbThroughput ==
    [][\A w \in Threads :
          (ProbeReturns(w) /\ ProbeName(w) = "USB Interface" /\ camera = "open") =>
              LET r == LastResult(test_results')
                  \* frames read, and the milliseconds they took
                  got == IF dev.frames /\ dev.stall = 0 THEN Min(dev.burst, UsbFrameCount) ELSE 0
                  took == got * dev.readMs + (IF got < UsbFrameCount THEN dev.failMs ELSE 0)
              IN r.status = IF got * 1000 >= 5 * took /\ took > 0 THEN "PASS" ELSE "FAIL"]_vars

\* the reads that fit the frame-rate window on device d, each taking readMs
C27_WindowReads(d) == Ceil(FrameRateWindowMs, d.readMs)

\* C27: the Frame Rate probe counts the frames read over its 3-second window
\* and passes exactly when that count over the window is at least 1.0 per
\* second; a device whose reads stop succeeding before the window ends is
\* rated over the full window.
C27_FrameRateOverWindow ==
    [][\A w \in Threads :
          ReturnsFrom(w, "Frame Rate Test") =>
              LET r == LastResult(test_results')
                  counted == IF dev.frames /\ dev.stall = 0
                             THEN Min(dev.burst, C27_WindowReads(dev)) ELSE 0
                  \* the window, or the time the reads overran it to
                  window == Max(FrameRateWindowMs, counted * dev.readMs)
              IN /\ r.details = counted
                 /\ r.status = IF counted * 1000 >= window THEN "PASS" ELSE "FAIL"]_vars

\* C28: on a connected device and without an error White Balance passes
\* exactly when the auto-white-balance readback after switching it on differs
\* from the one after switching it off, or the colour temperature read at the
\* start is above 0; otherwise it skips, and it never fails.
C28_WhiteBalanceVerdict ==
    [][\A w \in Threads :
          ReturnsFrom(w, "White Balance") =>
              LET r == LastResult(test_results')
                  toggles == ReadbackOf(dev, "auto_wb", C(1)) # ReadbackOf(dev, "auto_wb", 0)
              IN r.status = IF toggles \/ dev.vals["wb_temperature"] > 0 THEN "PASS"
                            ELSE "SKIP"]_vars

\* White Balance has skipped a device with neither the toggle nor a temperature
C28_Witness ==
    /\ "auto_wb" \notin dev.echo
    /\ dev.vals["wb_temperature"] = C(-1)
    /\ Len(test_results) = 1
    /\ test_results[1].test_name = "White Balance"
    /\ test_results[1].status = "SKIP"

\* device d delivers a frame inside the 5-second window of the power probe
C30_FrameInWindow(d) ==
    d.frames /\ d.burst > 0 /\ d.stall * d.failMs < PowerWindowMs

\* C30: Power Consumption passes exactly when a frame was read during its
\* 5-second window and fails when none was; reads that fail inside the window
\* do not end it, and whether the host has a battery changes nothing.
C30_PowerVerdict ==
    [][\A w \in Threads :
          ReturnsFrom(w, "Power Consumption") =>
              LET r == LastResult(test_results')
              IN /\ r.status = IF C30_FrameInWindow(dev) THEN "PASS" ELSE "FAIL"
                 /\ r.details.frames_captured > 0 <=> C30_FrameInWindow(dev)
                 /\ r.details.battery_available = dev.battery]_vars

\* Power Consumption has passed, on a host without a battery, a device whose
\* first reads of the window failed
C30_Witness ==
    /\ dev.stall > 0 /\ dev.failMs > 0 /\ ~dev.battery
    /\ Len(test_results) = 1
    /\ test_results[1].test_name = "Power Consumption"
    /\ test_results[1].status = "PASS"

\* the handles held after the first n events of a scan
C29_Held(log, n) ==
    Cardinality({m \in 1..n : log[m].op = "open"})
        - Cardinality({m \in 1..n : log[m].op = "release"})

\* the descriptors among the values of the dropdown
C29_Descriptors(options) == SelectSeq(options, LAMBDA o : o.label)

\* C29: the scan visits the indices in increasing order; an index that does
\* not open, delivers no frame or raises contributes no descriptor, one that
\* opens and delivers contributes exactly one; every handle opened is
\* released before the next index is tried, so the scan holds at most one
\* handle at a time and none when it ends.
C29_ScanReleases ==
    [][(ContinueDetection \/ RunTestsNoCamera) =>
          LET log == test_cameras'
              found == C29_Descriptors(camera_options')
          IN /\ \A n \in 0..Len(log) : C29_Held(log, n) \in {0, 1}
             /\ C29_Held(log, Len(log)) = 0
             /\ \A n \in 1..(Len(log) - 1) : log[n].index <= log[n + 1].index
             /\ {log[n].index : n \in 1..Len(log)} = {i \in Indices : ports[i].here}
             /\ {found[n].index : n \in 1..Len(found)}
                   = {i \in Indices : ports[i].here /\ ports[i].frames /\ ~ports[i].raises}
             /\ \A n \in 1..(Len(found) - 1) : found[n].index < found[n + 1].index]_vars

\* the scan has gone over a camera whose read raised and one that delivered
\* no frame, and has listed neither
C29_Witness ==
    /\ ports[0].raises
    /\ ports[1].here /\ ~ports[1].frames
    /\ Len(test_cameras) = 4
    /\ ~camera_options[1].label

\* worker w belongs to a run that a later run_tests has followed
Superseded(w) == w < started

\* C31: a run the user never stops records exactly one result for each of its
\* selected probes, whatever earlier runs were doing: a worker whose run was
\* stopped and followed by a new run starts no further probe, and its exit
\* does not reset is_testing underneath the new run.
C31_RunsApart ==
    [][\A w \in Threads :
          /\ (Superseded(w) /\ workers[w].cancel.at # "none") => ~WorkerStartProbe(w)
          /\ (Superseded(w) /\ WorkerExit(w) /\ \E v \in Threads : v > w /\ Alive(v)) =>
                is_testing' = is_testing
          \* the store of the latest run holds no more than its own results
          /\ (w = started /\ ProbeReturns(w)) => Len(test_results') <= workers[w].i]_vars

\* a thread run_tests has started, or is about to start, is still alive
C32_WorkerAlive == ui.spawn # <<>> \/ \E w \in Threads : Alive(w)

\* C32: every started run eventually leaves is_testing false, whether its
\* worker finishes all probes, is cancelled or meets an error in the run
\* loop; and is_testing is true only while a worker started by run_tests is
\* alive.
C32_FlagFalls ==
    /\ [](is_testing => C32_WorkerAlive)
    /\ is_testing ~> ~is_testing

\* the worker of the only run has ended on an error in its loop, before its
\* last probe and without a stop, and the flag is down
C32_Witness ==
    /\ started = 1
    /\ workers[1].pc = "done"
    /\ workers[1].i <= Len(workers[1].names)
    /\ workers[1].cancel.at = "none"
    /\ ~is_testing

\* C33: the USB Interface probe rates the frames it has read: a device whose
\* reads fail is never given PASS.
C33_NoPassWithoutFrames ==
    [][\A w \in Threads :
          (ProbeReturns(w) /\ ProbeName(w) = "USB Interface" /\ camera = "open"
              /\ (~dev.frames \/ dev.stall > 0 \/ dev.burst = 0)) =>
              LastResult(test_results').status # "PASS"]_vars

\* C34: whatever connect_camera, the auto-connect and disconnect_camera have
\* done, self.camera is either no handle or one open handle: a connect that
\* failed does not leave an unopened handle behind as the camera.
C34_OpenOrNone == camera \in {"none", "open"}

\* C35: a scan that finds a camera labelled USB ends with the tester
\* connected to the first such camera, so that run_tests called without a
\* camera goes on to start a run whenever a USB camera is attached.
C35_ScanConnects ==
    [][((ContinueDetection \/ RunTestsNoCamera) /\ ScanAutoConnects(ports)) =>
          /\ camera' = "open"
          /\ camera_var'.usb
          /\ RunTestsNoCamera => is_testing']_vars

\* C36: An installation thread runs the steps in the order check
\* requirements, download, install dependencies, create bundle, install to
\* Applications, set up shortcuts; after an error in a step it runs no later
\* step and goes through installation_failed, which leaves is_installing
\* false; start_installation starts no thread while is_installing is true;
\* and once a thread has returned or the process has ended, the temporary
\* directory that thread made is not on the disk.
C36_StepsInOrder ==
    /\ [][/\ \A k \in 1..MaxInstalls :
                LET s == installer.pc[k]
                    t == installer'.pc[k]
                IN  s # t =>
                       \/ s = "idle" /\ t = "mkdtemp"
                       \/ \E n \in 1..(Len(Steps) - 1) :
                             s = Steps[n] /\ t \in {Steps[n + 1], "failed"}
                       \/ s = "complete" /\ t = "finally"
                       \/ s = "failed" /\ t = "finally" /\ ~installer'.is_installing
                       \/ s = "finally" /\ t = "done"
          /\ installer'.started # installer.started => ~installer.is_installing]_vars
    /\ [](\A k \in 1..MaxInstalls :
             (installer.pc[k] = "done" \/ (installer.exited /\ installer.pc[k] # "idle"))
                => installer.disk[k] = {})

\* C37: A bundle that was in the Applications folder is away from it only
\* while the thread that removed it is about to copy the new one in: no
\* failed or cancelled installation leaves the folder without it.
C37_BundleKept ==
    installer.applications = "removed" =>
        \E k \in 1..MaxInstalls : installer.pc[k] = "copy"

====
